---- MODULE Spec2Model ----
(***************************************************************************)
(* MailMate AI backend (src/backend): the email annotation pipeline, the   *)
(* ingestion of messages, the replacement of OAuth tokens, the listing of  *)
(* messages and the sender dossier, as state machines over the committed   *)
(* store (the tables of src/backend/source/models.py).                     *)
(*                                                                         *)
(* Texts are records [lit, kw]: lit is the literal text, kw the set of     *)
(* keyword phrases that occur in its lower-cased form.  Short strings that *)
(* are searched character by character (senders, addresses, search tokens) *)
(* are sequences of one-character strings.                                 *)
(***************************************************************************)
EXTENDS Integers, Sequences, FiniteSets, TLC

----------------------------------------------------------------------------
(* Bounds of the model *)

\* Words of a text the annotators are called on directly
MaxWords == 2

\* auth_callback requests (logins) in a behaviour
MaxLogins == 3

\* Rows of the Email table the listing and the dossier are computed over
MaxListed == 3

\* Rows of the Email table the annotation pipeline is run on
MaxEmails == 2

\* Messages the provider lists for one fetch_emails request
MaxBatch == 2

----------------------------------------------------------------------------
(* Values *)

\* Python None / SQL NULL in a text column
NullText == [lit |-> "<NULL>", kw |-> {}]

\* Python None / SQL NULL in a string column
NullStr == "<NULL>"

\* SQL NULL in the received_at column
NullTime == -1

TextLen(t) == Len(t.lit)

\* Python truthiness of an Optional[str]: None and "" are falsy
Truthy(t) == t # NullText /\ TextLen(t) > 0

\* f"{subject} {body}"
FormatSubjectBody(subject, body) ==
    [lit |-> (IF subject = NullText THEN "None" ELSE subject.lit) \o " " \o
             (IF body = NullText THEN "None" ELSE body.lit),
     kw  |-> subject.kw \cup body.kw]

Users == {1, 2}

\* User.email of each user row
UserEmail(u) == IF u = 1 THEN <<"a", "@", "x">> ELSE <<"b", "@", "x">>

----------------------------------------------------------------------------
(* str.lower() and the substring test on character sequences *)

LowerChar(c) ==
    CASE c = "A" -> "a"
      [] c = "B" -> "b"
      [] c = "C" -> "c"
      [] c = "D" -> "d"
      [] c = "E" -> "e"
      [] c = "F" -> "f"
      [] c = "G" -> "g"
      [] c = "H" -> "h"
      [] c = "I" -> "i"
      [] c = "J" -> "j"
      [] c = "K" -> "k"
      [] c = "L" -> "l"
      [] c = "M" -> "m"
      [] c = "N" -> "n"
      [] c = "O" -> "o"
      [] c = "P" -> "p"
      [] c = "Q" -> "q"
      [] c = "R" -> "r"
      [] c = "S" -> "s"
      [] c = "T" -> "t"
      [] c = "U" -> "u"
      [] c = "V" -> "v"
      [] c = "W" -> "w"
      [] c = "X" -> "x"
      [] c = "Y" -> "y"
      [] c = "Z" -> "z"
      [] OTHER -> c

LowerSeq(s) == [i \in 1..Len(s) |-> LowerChar(s[i])]

\* Python "needle in hay"
SeqContains(hay, needle) ==
    \E i \in 0..(Len(hay) - Len(needle)) :
        \A j \in 1..Len(needle) : hay[i + j] = needle[j]

----------------------------------------------------------------------------
(* ai_service.py: the four annotators *)

SummarizerUnavailable == [lit |-> "Summarization service is not available", kw |-> {}]

CouldNotGenerate == [lit |-> "Could not generate summary", kw |-> {}]

ErrorDuringSummary == [lit |-> "Error during summary generation.", kw |-> {}]

\* summary_list[0]['summary_text'] for the text
ModelSummary(t) == [lit |-> "summary of <" \o t.lit \o ">", kw |-> {}]

ShortTextThreshold == 100

\* The values summarize_text may return for text, given whether the
\* pipeline was loaded at import time.
summarize_text(loaded, t) ==
    IF ~loaded THEN {SummarizerUnavailable}
    ELSE IF TextLen(t) < ShortTextThreshold THEN {t}
    ELSE {ModelSummary(t), CouldNotGenerate, ErrorDuringSummary}

CategoryOrder ==
    <<"Promotions", "Updates", "Work", "Personal", "Finance", "Social", "Newsletters">>

KEYWORD_CATEGORIES ==
    [c \in {CategoryOrder[i] : i \in 1..Len(CategoryOrder)} |->
        CASE c = "Promotions" ->
               {"sale", "discount", "offer", "unsubscribe", "coupon", "deal",
                "limited time", "free shipping", "shop now", "view collection",
                "save now"}
          [] c = "Updates" ->
               {"update", "notification", "alert", "shipping", "delivery", "order",
                "confirmation", "receipt", "invoice", "statement", "policy change"}
          [] c = "Work" ->
               {"meeting", "report", "project", "deadline", "task", "agenda",
                "team", "collaboration", "document", "presentation", "feedback",
                "zoom"}
          [] c = "Personal" ->
               {"happy birthday", "congratulations", "invitation", "family",
                "friend", "trip", "vacation", "photos", "event", "party"}
          [] c = "Finance" ->
               {"bank", "payment", "invoice", "receipt", "statement", "due date",
                "credit card", "investment", "stock", "market update", "bill"}
          [] c = "Social" ->
               {"linkedin", "facebook", "twitter", "instagram", "mentioned you",
                "new post", "tagged you", "friend request", "new connection"}
          [] c = "Newsletters" ->
               {"newsletter", "digest", "weekly", "daily", "monthly", "subscribe",
                "edition", "latest issue", "top stories"}]

\* scores[category]: the number of the category's keywords found in the text
CategoryScore(t, c) == Cardinality(KEYWORD_CATEGORIES[c] \cap t.kw)

\* The loop with "if score >= max_score": the last category that reaches the
\* highest positive score
classify_email_last_wins(t) ==
    LET n == Len(CategoryOrder)
        s(i) == CategoryScore(t, CategoryOrder[i])
        best == {i \in 1..n : /\ s(i) > 0
                              /\ \A j \in 1..n : s(j) <= s(i)
                              /\ \A j \in (i + 1)..n : s(j) < s(i)}
    IN  IF best = {} THEN "Uncategorized" ELSE CategoryOrder[CHOOSE i \in best : TRUE]

\* The loop "if score > max_score" over the categories in declaration order:
\* the first category that reaches the highest positive score.
classify_email(t) ==
    LET n == Len(CategoryOrder)
        s(i) == CategoryScore(t, CategoryOrder[i])
        best == {i \in 1..n : /\ s(i) > 0
                              /\ \A j \in 1..n : s(j) <= s(i)
                              /\ \A j \in 1..(i - 1) : s(j) < s(i)}
    IN  IF best = {} THEN "Uncategorized" ELSE CategoryOrder[CHOOSE i \in best : TRUE]

HIGH_PRIORITY_KEYWORDS == {"urgent", "important", "action required", "response needed", "asap"}

LOW_PRIORITY_KEYWORDS == {"unsubscribe", "newsletter", "promotional", "advertisement", "sale"}

HighPriorityPoints == 15

LowPriorityPoints == 10

NotSelfPoints == 10

QuestionPoints == 5

\* (x or ""): a missing text counts as the empty text
OrEmpty(t) == IF t = NullText THEN [lit |-> "", kw |-> {}] ELSE t

\* The score without rule 4, the question mark in the body
calculate_priority_score_without_question(subject, body, sender, user_email) ==
    LET full_text == OrEmpty(subject).kw \cup OrEmpty(body).kw
        sender_header == sender
    IN  (IF HIGH_PRIORITY_KEYWORDS \cap full_text # {} THEN HighPriorityPoints ELSE 0)
      - (IF LOW_PRIORITY_KEYWORDS \cap full_text # {} THEN LowPriorityPoints ELSE 0)
      + (IF ~SeqContains(LowerSeq(sender_header), LowerSeq(user_email))
            THEN NotSelfPoints ELSE 0)

calculate_priority_score(subject, body, sender, user_email) ==
    LET full_text == OrEmpty(subject).kw \cup OrEmpty(body).kw
        sender_header == sender
    IN  (IF HIGH_PRIORITY_KEYWORDS \cap full_text # {} THEN HighPriorityPoints ELSE 0)
      - (IF LOW_PRIORITY_KEYWORDS \cap full_text # {} THEN LowPriorityPoints ELSE 0)
      + (IF ~SeqContains(LowerSeq(sender_header), LowerSeq(user_email))
            THEN NotSelfPoints ELSE 0)
      + (IF "?" \in OrEmpty(body).kw THEN QuestionPoints ELSE 0)

ACTION_KEYWORDS ==
    [a \in {"Schedule Event", "Reply Needed", "For Your Information (FYI)"} |->
        CASE a = "Schedule Event" ->
               {"schedule", "meeting", "call", "appointment", "zoom link", "calendar",
                "confirm a time"}
          [] a = "Reply Needed" ->
               {"feedback", "your thoughts", "let me know", "confirm",
                "are you available", "question is"}
          [] a = "For Your Information (FYI)" ->
               {"update", "fyi", "just so you know", "heads up", "announcement",
                "receipt", "confirmation"}]

\* The list without its last entry
NoActionWithoutUpdates == {"Promotions", "Newsletters", "Social"}

\* The same list without "Promotions"
NoActionWithoutPromotions == {"Newsletters", "Social", "Updates"}

NoActionCategories == {"Promotions", "Newsletters", "Social", "Updates"}

ReplyDefaultCategories == {"Work", "Personal", "Finance"}

\* The keyword sets checked in the order Reply Needed, Schedule Event, FYI
determine_action_reply_first(t, category) ==
    IF category \in NoActionCategories THEN "No Action Needed"
    ELSE IF ACTION_KEYWORDS["Reply Needed"] \cap t.kw # {} THEN "Reply Needed"
    ELSE IF ACTION_KEYWORDS["Schedule Event"] \cap t.kw # {} THEN "Schedule Event"
    ELSE IF ACTION_KEYWORDS["For Your Information (FYI)"] \cap t.kw # {}
         THEN "For Your Information (FYI)"
    ELSE IF category \in ReplyDefaultCategories THEN "Reply Needed"
    ELSE NullStr

determine_action(t, category) ==
    IF category \in NoActionCategories THEN "No Action Needed"
    ELSE IF ACTION_KEYWORDS["Schedule Event"] \cap t.kw # {} THEN "Schedule Event"
    ELSE IF ACTION_KEYWORDS["Reply Needed"] \cap t.kw # {} THEN "Reply Needed"
    ELSE IF ACTION_KEYWORDS["For Your Information (FYI)"] \cap t.kw # {}
         THEN "For Your Information (FYI)"
    ELSE IF category \in ReplyDefaultCategories THEN "Reply Needed"
    ELSE NullStr

----------------------------------------------------------------------------
(* models.py: the Email table; crud.py: the statements on it *)

VARIABLES
    emails,      \* committed rows of the Email table, by primary key 1..Len
    summarizer,  \* ai_service.summarizer is loaded (TRUE) or None (FALSE)
    tasks,       \* per process_emails request: the queued (email id) tasks
    pos,         \* per request: index of the task being run
    pc,          \* per request: where the request / its current run stands
    obj,         \* per request: the Email object held by the run's session
    base,        \* per request: the object's values as last loaded or committed
    bound,       \* per request: locals full_text and category are assigned
    user,        \* per request: the user the request was made for
    local_category,  \* per request: local variable category of the run
    outcome,     \* per request: how each finished run of the batch ended
    raised,      \* per request: what each run of the batch raised, if anything
    written,     \* per request: fields whose write by the current run is committed
    sawSummary,  \* per request: per run, the summary was set when the run read it
    calledSummarizer  \* per request: per run, the run invoked summarize_text

runVars == <<summarizer, tasks, pos, pc, obj, base, bound, user,
             local_category, outcome, raised, written, sawSummary, calledSummarizer>>

VARIABLES
    fpc,            \* per fetch_emails request: where the handler stands
    fuser,          \* per fetch request: the user it was made for
    messages,       \* per fetch request: the raw messages of the provider's list
    fidx,           \* per fetch request: index of the message being handled
    parsed_email,   \* per fetch request: the draft parse_email returned
    fetched_count,  \* per fetch request: the local counter
    response,       \* per fetch request: what the handler answered
    results         \* per fetch request: how the handling of each message ended

fetchVars == <<fpc, fuser, messages, fidx, parsed_email, fetched_count, response,
               results>>

VARIABLES
    tokens,     \* committed rows of the UserToken table
    tpc,        \* per auth_callback request: where save_user_token stands
    tuser,      \* per auth_callback request: the user who logged in
    existing,   \* per auth_callback request: the token rows its SELECT returned
    hadToken,   \* per user: a token of the user has been committed
    tokenCheck  \* per user: what the last fetch_emails token check found

tokenVars == <<tokens, tpc, tuser, existing, hadToken, tokenCheck>>

VARIABLES
    now,      \* datetime.utcnow() of the last dossier request, in days
    listing,  \* the last get_emails request and the rows it returned
    dossier,  \* the last dossier request and the dictionary it returned
    dossier_status  \* the HTTP status get_sender_dossier answered with

queryVars == <<now, listing, dossier, dossier_status>>

VARIABLES
    call  \* the last direct call of an annotator: its arguments and its result

callVars == <<call>>

\* Two process_emails requests, whose background runners run concurrently
Requests == {1, 2}

\* models.Email(...): a new row with the column defaults of the table
Email(owner, message_id, subject, sender, body, received_at) ==
    [owner_id |-> owner, message_id |-> message_id, subject |-> subject,
     sender |-> sender, body |-> body, received_at |-> received_at,
     summary |-> NullText, category |-> "Uncategorized", priority_score |-> 0,
     suggested_action |-> NullStr]

NoEmail == Email(0, 0, NullText, <<>>, NullText, NullTime)

AnnotationFields == {"summary", "category", "priority_score", "suggested_action"}

\* crud.get_unprocessed_emails: the user's rows whose summary IS NULL
get_unprocessed_emails(store, u) ==
    SelectSeq([i \in 1..Len(store) |-> i],
              LAMBDA i : store[i].owner_id = u /\ store[i].summary = NullText)

\* An UPDATE that writes every column of the session's object
FlushWholeRow(row, o, b) == o

\* session.commit(): the UPDATE of the attributes that differ from the values
\* the session last loaded or committed
Flush(row, o, b) ==
    [f \in DOMAIN row |-> IF o[f] # b[f] THEN o[f] ELSE row[f]]

ChangedFields(o, b) == {f \in AnnotationFields : o[f] # b[f]}

----------------------------------------------------------------------------
(* Texts and messages the pipeline is run on *)

TextUrgentQuestion == [lit |-> "This is urgent: can you reply today?", kw |-> {"urgent", "?"}]

TextMeeting == [lit |-> "Team meeting moved to Friday", kw |-> {"meeting", "team"}]

TextPromo ==
    [lit |-> "Big sale this week only: take a discount on every item in the store, "
             \o "or click unsubscribe below to stop receiving these messages.",
     kw  |-> {"sale", "discount", "unsubscribe", "subscribe"}]

TextEmpty == [lit |-> "", kw |-> {}]

TextSubject == [lit |-> "No Subject", kw |-> {}]

SenderBob == <<"B", "o", "b">>

SenderSelf == <<"A", "@", "x">>

Bodies == <<TextMeeting, TextUrgentQuestion, TextPromo, TextEmpty>>

\* Stores left by ingestion: rows 1..n with distinct message identifiers,
\* unannotated; the first k rows belong to user 1, the others to user 2, and
\* the bodies follow the cycle of Bodies from some start.
FreshStores ==
    UNION {{[i \in 1..n |-> Email(IF i <= k THEN 1 ELSE 2, i, TextSubject,
                                   IF i <= k THEN SenderBob ELSE SenderSelf,
                                   Bodies[((start + i) % Len(Bodies)) + 1], 10 + i)] :
              k \in 1..n, start \in 1..Len(Bodies)} :
           n \in 1..MaxEmails}

----------------------------------------------------------------------------
(* main.py: process_emails and the background task process_single_email *)

RunInit ==
    /\ summarizer \in BOOLEAN
    /\ tasks = [q \in Requests |-> <<>>]
    /\ pos = [q \in Requests |-> 0]
    /\ pc = [q \in Requests |-> "idle"]
    /\ obj = [q \in Requests |-> NoEmail]
    /\ base = [q \in Requests |-> NoEmail]
    /\ bound = [q \in Requests |-> FALSE]
    /\ user = [q \in Requests |-> 0]
    /\ local_category = [q \in Requests |-> NullStr]
    /\ outcome = [q \in Requests |-> <<>>]
    /\ raised = [q \in Requests |-> <<>>]
    /\ written = [q \in Requests |-> {}]
    /\ sawSummary = [q \in Requests |-> FALSE]
    /\ calledSummarizer = [q \in Requests |-> FALSE]

\* No process_emails request is made
RunIdle ==
    /\ summarizer = TRUE
    /\ tasks = [q \in Requests |-> <<>>]
    /\ pos = [q \in Requests |-> 0]
    /\ pc = [q \in Requests |-> "idle"]
    /\ obj = [q \in Requests |-> NoEmail]
    /\ base = [q \in Requests |-> NoEmail]
    /\ bound = [q \in Requests |-> FALSE]
    /\ user = [q \in Requests |-> 0]
    /\ local_category = [q \in Requests |-> NullStr]
    /\ outcome = [q \in Requests |-> <<>>]
    /\ raised = [q \in Requests |-> <<>>]
    /\ written = [q \in Requests |-> {}]
    /\ sawSummary = [q \in Requests |-> FALSE]
    /\ calledSummarizer = [q \in Requests |-> FALSE]

\* The email id of the task the request's background runner is at
email_id(q) == tasks[q][pos[q]]

\* process_emails: queue one process_single_email task per unprocessed email
\* of the user; the tasks run one after the other once the response is sent.
ProcessEmails(q, u) ==
    /\ UNCHANGED <<fetchVars, tokenVars, queryVars, callVars>>
    /\ pc[q] = "idle"
    /\ LET emails_to_process == get_unprocessed_emails(emails, u)
       IN  /\ tasks' = [tasks EXCEPT ![q] = emails_to_process]
           /\ pos' = [pos EXCEPT ![q] = IF emails_to_process = <<>> THEN 0 ELSE 1]
           /\ pc' = [pc EXCEPT ![q] =
                        IF emails_to_process = <<>> THEN "finished" ELSE "start"]
    /\ user' = [user EXCEPT ![q] = u]
    /\ UNCHANGED <<emails, summarizer, obj, base, bound, local_category, outcome,
                   raised, written, sawSummary, calledSummarizer>>

\* The run has returned (normally, or from its except handler): the session is
\* closed and the runner goes on to the next queued task.
TaskReturns(q, how, what) ==
    /\ outcome' = [outcome EXCEPT ![q] = Append(@, how)]
    /\ raised' = [raised EXCEPT ![q] = Append(@, what)]
    /\ pos' = [pos EXCEPT ![q] = IF pos[q] < Len(tasks[q]) THEN pos[q] + 1 ELSE pos[q]]
    /\ pc' = [pc EXCEPT ![q] = IF pos[q] < Len(tasks[q]) THEN "start" ELSE "finished"]
    /\ obj' = [obj EXCEPT ![q] = NoEmail]
    /\ base' = [base EXCEPT ![q] = NoEmail]
    /\ bound' = [bound EXCEPT ![q] = FALSE]
    /\ local_category' = [local_category EXCEPT ![q] = NullStr]
    /\ written' = [written EXCEPT ![q] = {}]
    /\ sawSummary' = [sawSummary EXCEPT ![q] = FALSE]
    /\ calledSummarizer' = [calledSummarizer EXCEPT ![q] = FALSE]

\* The exception leaves process_single_email: the runner's loop over the
\* queued tasks is left with it and the remaining tasks are never run.
ExceptionEscapes(q, what) ==
    /\ outcome' = [outcome EXCEPT ![q] = Append(@, "rolledback")]
    /\ raised' = [raised EXCEPT ![q] = Append(@, what)]
    /\ pc' = [pc EXCEPT ![q] = "finished"]
    /\ obj' = [obj EXCEPT ![q] = NoEmail]
    /\ base' = [base EXCEPT ![q] = NoEmail]
    /\ bound' = [bound EXCEPT ![q] = FALSE]
    /\ local_category' = [local_category EXCEPT ![q] = NullStr]
    /\ written' = [written EXCEPT ![q] = {}]
    /\ sawSummary' = [sawSummary EXCEPT ![q] = FALSE]
    /\ calledSummarizer' = [calledSummarizer EXCEPT ![q] = FALSE]
    /\ UNCHANGED pos

\* except Exception: log, session.rollback(); finally: session.close().
\* The staged attributes are discarded and the task returns normally.
ExceptHandler(q, what) == TaskReturns(q, "rolledback", what)

\* session = AsyncSessionLocal(); email = await session.get(Email, email_id);
\* if not email or not email.body: return
Get(q) ==
    /\ UNCHANGED <<fetchVars, tokenVars, queryVars, callVars>>
    /\ pc[q] = "start"
    /\ LET email == emails[email_id(q)]
       IN  IF ~Truthy(email.body)
              THEN TaskReturns(q, "returned", "none")
              ELSE /\ obj' = [obj EXCEPT ![q] = email]
                   /\ base' = [base EXCEPT ![q] = email]
                   /\ pc' = [pc EXCEPT ![q] = "summ"]
                   /\ sawSummary' = [sawSummary EXCEPT ![q] = Truthy(email.summary)]
                   /\ UNCHANGED <<pos, bound, local_category, outcome, raised,
                                  written, calledSummarizer>>
    /\ UNCHANGED <<emails, summarizer, tasks, user>>

\* The summarization step run whether or not the summary is set
SummarizeNeverSkipped(q) == FALSE

\* "if not email.summary" is false: the step is skipped
SummarizeSkipped(q) == Truthy(obj[q].summary)

\* if not email.summary: summary = summarize_text(email.body);
\* crud.update_email_summary: set the attribute, db.add, db.commit()
Summarize(q) ==
    /\ UNCHANGED <<fetchVars, tokenVars, queryVars, callVars>>
    /\ pc[q] = "summ"
    /\ pc' = [pc EXCEPT ![q] = "cat"]
    /\ IF SummarizeSkipped(q)
          THEN UNCHANGED <<emails, obj, base, written, calledSummarizer>>
          ELSE \E summary \in summarize_text(summarizer, obj[q].body) :
                 LET o == [obj[q] EXCEPT !.summary = summary]
                 IN  /\ obj' = [obj EXCEPT ![q] = o]
                     /\ emails' = [emails EXCEPT ![email_id(q)] = Flush(@, o, base[q])]
                     /\ base' = [base EXCEPT ![q] = o]
                     /\ written' = [written EXCEPT ![q] = @ \cup ChangedFields(o, base[q])]
                     /\ calledSummarizer' = [calledSummarizer EXCEPT ![q] = TRUE]
    /\ UNCHANGED <<summarizer, tasks, pos, bound, user, local_category, outcome,
                   raised, sawSummary>>

\* if email.category == "Uncategorized": full_text = ...; category =
\* classify_email(full_text); crud.update_email_category (staged, no commit)
Categorize(q) ==
    /\ UNCHANGED <<fetchVars, tokenVars, queryVars, callVars>>
    /\ pc[q] = "cat"
    /\ pc' = [pc EXCEPT ![q] = "prio"]
    /\ IF obj[q].category = "Uncategorized"
          THEN LET full_text == FormatSubjectBody(obj[q].subject, obj[q].body)
                   c == classify_email(full_text)
               IN  /\ bound' = [bound EXCEPT ![q] = TRUE]
                   /\ local_category' = [local_category EXCEPT ![q] = c]
                   /\ obj' = [obj EXCEPT ![q].category = c]
          ELSE UNCHANGED <<bound, local_category, obj>>
    /\ UNCHANGED <<emails, summarizer, tasks, pos, base, user, outcome, raised,
                   written, sawSummary, calledSummarizer>>

\* score = calculate_priority_score(email_data, user_email);
\* crud.update_email_priority (staged, no commit)
Prioritize(q) ==
    /\ UNCHANGED <<fetchVars, tokenVars, queryVars, callVars>>
    /\ pc[q] = "prio"
    /\ pc' = [pc EXCEPT ![q] = "act"]
    /\ LET score == calculate_priority_score(obj[q].subject, obj[q].body,
                                             obj[q].sender, UserEmail(user[q]))
       IN  obj' = [obj EXCEPT ![q].priority_score = score]
    /\ UNCHANGED <<emails, summarizer, tasks, pos, base, bound, user, local_category,
                   outcome, raised, written, sawSummary, calledSummarizer>>

\* action = determine_action(full_text, category): both names are assigned
\* only in the categorization branch; if action: crud.update_email_action
Act(q) ==
    /\ UNCHANGED <<fetchVars, tokenVars, queryVars, callVars>>
    /\ pc[q] = "act"
    /\ IF ~bound[q]
          THEN ExceptHandler(q, "UnboundLocalError")
          ELSE LET full_text == FormatSubjectBody(obj[q].subject, obj[q].body)
                   action == determine_action(full_text, local_category[q])
               IN  /\ obj' = [obj EXCEPT ![q].suggested_action =
                                 IF action # NullStr THEN action ELSE @]
                   /\ pc' = [pc EXCEPT ![q] = "commit"]
                   /\ UNCHANGED <<pos, base, bound, local_category, outcome, raised,
                                  written, sawSummary, calledSummarizer>>
    /\ UNCHANGED <<emails, summarizer, tasks, user>>

\* await session.commit(); finally: session.close()
Commit(q) ==
    /\ UNCHANGED <<fetchVars, tokenVars, queryVars, callVars>>
    /\ pc[q] = "commit"
    /\ emails' = [emails EXCEPT ![email_id(q)] = Flush(@, obj[q], base[q])]
    /\ TaskReturns(q, "committed", "none")
    /\ UNCHANGED <<summarizer, tasks, user>>

\* An annotator call or a store call of the run raises (model failure, lost
\* connection): control passes to the except handler.
Raises(q) ==
    /\ UNCHANGED <<fetchVars, tokenVars, queryVars, callVars>>
    /\ pc[q] \in {"start", "summ", "cat", "prio", "act", "commit"}
    /\ ExceptHandler(q, "raised")
    /\ UNCHANGED <<emails, summarizer, tasks, user>>

\* The row a run of process_single_email leaves when it runs alone and no
\* call raises, the Summarizer returning the given summary if it is invoked
RunAlone(email, user_email, summary) ==
    LET full_text == FormatSubjectBody(email.subject, email.body)
        c == IF email.category = "Uncategorized"
                THEN classify_email(full_text) ELSE email.category
        action == determine_action(full_text, c)
    IN  [email EXCEPT
            !.summary = IF Truthy(@) THEN @ ELSE summary,
            !.category = c,
            !.priority_score = calculate_priority_score(email.subject, email.body,
                                                        email.sender, user_email),
            !.suggested_action = IF action # NullStr THEN action ELSE @]

PipeNext ==
    \E q \in Requests :
        \/ \E u \in Users : ProcessEmails(q, u)
        \/ Get(q)
        \/ Summarize(q)
        \/ Categorize(q)
        \/ Prioritize(q)
        \/ Act(q)
        \/ Commit(q)
        \/ Raises(q)

----------------------------------------------------------------------------
(* main.py: fetch_emails; gmail_service.py: parse_email; crud.py: create_email *)

\* Two concurrent fetch_emails requests, request f made for user f
FetchRequests == {1, 2}

MessageIds == {1, 2}

\* A raw provider message: "ok" parses to a draft, "noraw" lacks the "raw"
\* field, "bad" makes fetch_email_details or the decoding in parse_email raise.
RawMessages ==
    [id : MessageIds, kind : {"ok"}] \cup [id : {1}, kind : {"noraw", "bad"}]

Batches == UNION {[1..n -> RawMessages] : n \in 0..MaxBatch}

\* Raw messages that parse to a draft: "ok" has a Date header one of the three
\* formats accepts; "internal" has not, but a numeric internalDate; "nodate"
\* has neither (no or unparseable Date header, internalDate missing or not a
\* number)
DatedMessages == [id : MessageIds, kind : {"ok", "internal", "nodate"}]

DatedBatches == UNION {[1..n -> DatedMessages] : n \in 1..MaxBatch}

\* Python values of the "received_at" entry of a draft
DateTime(t) == [type |-> "datetime", value |-> t]

NoneValue == [type |-> "NoneType", value |-> NullTime]

\* The value of the TIMESTAMP column for the Python value
ColumnValue(v) == IF v.type = "datetime" THEN v.value ELSE NullTime

NoDraft == [message_id |-> 0, subject |-> NullText, sender |-> <<>>,
            body |-> NullText, received_at |-> NoneValue]

\* datetime.utcnow() at ingestion, in days
IngestionTime == 50

\* fetch_emails: "if isinstance(ra, str):" replace the string by the datetime
\* it parses to, or by utcnow() if it does not parse; any other value is kept
EnsureDatetime(draft) ==
    IF draft.received_at.type = "str"
       THEN [draft EXCEPT !.received_at = DateTime(IngestionTime)]
       ELSE draft

\* parse_email: None without the "raw" field, else the draft of the message.
\* The mailbox of each user holds its own content under a message id.
parse_email(raw, u) ==
    IF raw.kind = "noraw" THEN NoDraft
    ELSE [message_id |-> raw.id, subject |-> TextSubject,
          sender |-> IF u = 1 THEN SenderBob ELSE SenderSelf,
          body |-> IF u = 1 THEN TextMeeting ELSE TextUrgentQuestion,
          received_at |-> CASE raw.kind = "nodate" -> NoneValue
                            [] raw.kind = "internal" -> DateTime(20 + raw.id + u)
                            [] OTHER -> DateTime(10 + raw.id + u)]

FetchIdle ==
    /\ fpc = [f \in FetchRequests |-> "idle"]
    /\ fuser = [f \in FetchRequests |-> 0]
    /\ messages = [f \in FetchRequests |-> <<>>]
    /\ fidx = [f \in FetchRequests |-> 0]
    /\ parsed_email = [f \in FetchRequests |-> NoDraft]
    /\ fetched_count = [f \in FetchRequests |-> 0]
    /\ response = [f \in FetchRequests |-> "none"]
    /\ results = [f \in FetchRequests |-> <<>>]

\* select(Email).where(Email.message_id == message_id): the matching rows
RowsWithMessageId(store, mid) == {i \in 1..Len(store) : store[i].message_id = mid}

\* The table without the unique index on message_id
NoUniqueIndex(store, mid) == FALSE

\* Email.message_id is unique=True: the INSERT of a second row with the
\* identifier fails with an IntegrityError
UniqueViolation(store, mid) == RowsWithMessageId(store, mid) # {}

\* fetch_emails up to the loop: the provider's list; an empty list is answered
\* at once
FetchEmails(f, u, batch) ==
    /\ UNCHANGED <<runVars, tokenVars, queryVars, callVars>>
    /\ fpc[f] = "idle"
    /\ fuser' = [fuser EXCEPT ![f] = u]
    /\ messages' = [messages EXCEPT ![f] = batch]
    /\ IF batch = <<>>
          THEN /\ fpc' = [fpc EXCEPT ![f] = "done"]
               /\ response' = [response EXCEPT ![f] = "NO new emails found."]
               /\ UNCHANGED fidx
          ELSE /\ fpc' = [fpc EXCEPT ![f] = "fetch"]
               /\ fidx' = [fidx EXCEPT ![f] = 1]
               /\ UNCHANGED response
    /\ UNCHANGED <<emails, parsed_email, fetched_count, results>>

\* The handling of the current message is over with the given result: the loop
\* goes on to the next message, or the handler answers with the count.
NextMessage(f, result, counted) ==
    /\ results' = [results EXCEPT ![f] = Append(@, result)]
    /\ fetched_count' = [fetched_count EXCEPT ![f] = @ + counted]
    /\ parsed_email' = [parsed_email EXCEPT ![f] = NoDraft]
    /\ IF fidx[f] < Len(messages[f])
          THEN /\ fidx' = [fidx EXCEPT ![f] = @ + 1]
               /\ fpc' = [fpc EXCEPT ![f] = "fetch"]
               /\ UNCHANGED response
          ELSE /\ fpc' = [fpc EXCEPT ![f] = "done"]
               /\ response' = [response EXCEPT ![f] = "Successfully fetched and saved"]
               /\ UNCHANGED fidx

\* An exception leaves the loop and the handler: nothing catches it, the
\* request is answered with a server error and the rest of the list is dropped.
HandlerRaises(f, result) ==
    /\ results' = [results EXCEPT ![f] = Append(@, result)]
    /\ parsed_email' = [parsed_email EXCEPT ![f] = NoDraft]
    /\ fpc' = [fpc EXCEPT ![f] = "failed"]
    /\ response' = [response EXCEPT ![f] = "500"]
    /\ UNCHANGED <<fidx, fetched_count>>

\* raw_email = fetch_email_details(...); parsed_email = parse_email(raw_email);
\* "if parsed_email:" skips a rejected message
FetchAndParse(f) ==
    /\ UNCHANGED <<runVars, tokenVars, queryVars, callVars>>
    /\ fpc[f] = "fetch"
    /\ LET raw == messages[f][fidx[f]]
       IN  CASE raw.kind = "bad" -> HandlerRaises(f, "raised")
             [] raw.kind = "noraw" -> NextMessage(f, "rejected", 0)
             [] OTHER -> /\ parsed_email' = [parsed_email EXCEPT ![f] =
                                                EnsureDatetime(parse_email(raw, fuser[f]))]
                         /\ fpc' = [fpc EXCEPT ![f] = "select"]
                         /\ UNCHANGED <<fidx, fetched_count, response, results>>
    /\ UNCHANGED <<emails, fuser, messages>>

\* create_email: new_email = models.Email(owner_id=owner.id, ...)
NewEmail(owner, draft) ==
    Email(owner, draft.message_id, draft.subject, draft.sender, draft.body,
          ColumnValue(draft.received_at))

\* A duplicate identifier overwrites the stored row with the new draft
OverwriteDuplicate(store, owner, draft) ==
    [i \in 1..Len(store) |->
        IF store[i].message_id = draft.message_id
           THEN NewEmail(owner, draft) ELSE store[i]]

\* create_email, "already exists. Skipping.": the store after the return
OnDuplicate(store, owner, draft) == store

\* create_email: the SELECT by message_id; a hit returns without a write and
\* the loop counts the message
Select(f) ==
    /\ UNCHANGED <<runVars, tokenVars, queryVars, callVars>>
    /\ fpc[f] = "select"
    /\ IF RowsWithMessageId(emails, parsed_email[f].message_id) # {}
          THEN /\ emails' = OnDuplicate(emails, fuser[f], parsed_email[f])
               /\ NextMessage(f, "skipped", 1)
          ELSE /\ fpc' = [fpc EXCEPT ![f] = "insert"]
               /\ UNCHANGED <<emails, fidx, parsed_email, fetched_count, response,
                              results>>
    /\ UNCHANGED <<fuser, messages>>

\* create_email: db.add(new_email); db.commit()
Insert(f) ==
    /\ UNCHANGED <<runVars, tokenVars, queryVars, callVars>>
    /\ fpc[f] = "insert"
    /\ LET d == parsed_email[f]
       IN  IF UniqueViolation(emails, d.message_id)
              THEN /\ HandlerRaises(f, "IntegrityError")
                   /\ UNCHANGED emails
              ELSE /\ emails' = Append(emails, NewEmail(fuser[f], d))
                   /\ NextMessage(f, "saved", 1)
    /\ UNCHANGED <<fuser, messages>>

IngestNext ==
    \E f \in FetchRequests :
        \/ \E batch \in Batches : FetchEmails(f, f, batch)
        \/ FetchAndParse(f)
        \/ Select(f)
        \/ Insert(f)

----------------------------------------------------------------------------
(* crud.py: save_user_token, called by auth_callback; the token check of
   fetch_emails *)

Logins == 1..MaxLogins

TokenIdle ==
    /\ tokens = {}
    /\ tpc = [l \in Logins |-> "idle"]
    /\ tuser = [l \in Logins |-> 0]
    /\ existing = [l \in Logins |-> {}]
    /\ hadToken = [u \in Users |-> FALSE]
    /\ tokenCheck = [u \in Users |-> "none"]

\* user.tokens: the token rows of the user
UserTokens(store, u) == {t \in store : t.user_id = u}

\* save_user_token: the SELECT of the user's existing token rows
SelectTokens(l, u) ==
    /\ UNCHANGED <<emails, runVars, fetchVars, queryVars, callVars>>
    /\ tpc[l] = "idle"
    /\ tuser' = [tuser EXCEPT ![l] = u]
    /\ existing' = [existing EXCEPT ![l] = UserTokens(tokens, u)]
    /\ tpc' = [tpc EXCEPT ![l] = "selected"]
    /\ UNCHANGED <<tokens, hadToken, tokenCheck>>

\* save_user_token: db.delete(token) for each row found, then db.commit()
DeleteTokens(l) ==
    /\ UNCHANGED <<emails, runVars, fetchVars, queryVars, callVars>>
    /\ tpc[l] = "selected"
    /\ tokens' = tokens \ existing[l]
    /\ tpc' = [tpc EXCEPT ![l] = "deleted"]
    /\ UNCHANGED <<tuser, existing, hadToken, tokenCheck>>

\* save_user_token: db.add(new_token), then db.commit()
InsertToken(l) ==
    /\ UNCHANGED <<emails, runVars, fetchVars, queryVars, callVars>>
    /\ tpc[l] = "deleted"
    /\ tokens' = tokens \cup {[id |-> l, user_id |-> tuser[l]]}
    /\ hadToken' = [hadToken EXCEPT ![tuser[l]] = TRUE]
    /\ tpc' = [tpc EXCEPT ![l] = "done"]
    /\ UNCHANGED <<tuser, existing, tokenCheck>>

\* fetch_emails: "if not user or not user.tokens: raise HTTPException(404)"
CheckTokens(u) ==
    /\ UNCHANGED <<emails, runVars, fetchVars, queryVars, callVars>>
    /\ tokenCheck' = [tokenCheck EXCEPT ![u] =
                         IF UserTokens(tokens, u) = {} THEN "404" ELSE "found"]
    /\ UNCHANGED <<tokens, tpc, tuser, existing, hadToken>>

TokenNext ==
    \/ \E l \in Logins, u \in Users : SelectTokens(l, u)
    \/ \E l \in Logins : DeleteTokens(l)
    \/ \E l \in Logins : InsertToken(l)
    \/ \E u \in Users : CheckTokens(u)

----------------------------------------------------------------------------
(* crud.py: get_emails_for_user and get_dossier_for_sender *)

QueryIdle ==
    /\ now = 0
    /\ listing = [user |-> 0, category |-> NullStr, rows |-> <<>>]
    /\ dossier = [user |-> 0, search_query |-> <<>>, matched |-> <<>>,
                  total_emails |-> 0, category_counts |-> <<>>,
                  average_priority_score |-> 0, latest_email_summary |-> NullText,
                  most_common_action |-> NullStr, conversation_history |-> <<>>]
    /\ dossier_status = 0

\* Rows as ingestion and annotation leave them: five annotated messages and
\* one that is not annotated and has no received timestamp
AnnotatedRows ==
    <<RunAlone(Email(1, 0, TextSubject, SenderBob, TextMeeting, 200),
               UserEmail(1), TextMeeting),
      RunAlone(Email(1, 0, TextSubject, SenderBob, TextMeeting, 210),
               UserEmail(1), TextMeeting),
      RunAlone(Email(1, 0, TextSubject, SenderBob, TextUrgentQuestion, 210),
               UserEmail(1), TextUrgentQuestion),
      RunAlone(Email(1, 0, TextSubject, SenderSelf, TextPromo, 20),
               UserEmail(1), ModelSummary(TextPromo)),
      Email(1, 0, TextSubject, SenderBob, TextMeeting, NullTime),
      RunAlone(Email(2, 0, TextSubject, SenderBob, TextMeeting, 200),
               UserEmail(2), TextMeeting)>>

\* The stores the queries are run on: 1..MaxListed of these rows in any
\* order, each under its own message identifier
AnnotatedStores ==
    UNION {{[i \in 1..n |-> [AnnotatedRows[pick[i]] EXCEPT !.message_id = i]] :
              pick \in [1..n -> 1..Len(AnnotatedRows)]} :
           n \in 1..MaxListed}

\* str.lower() / func.lower() on the category labels and filters
lower(str) ==
    CASE str \in {"Work", "WORK", "work"} -> "work"
      [] str \in {"Promotions", "PROMOTIONS", "promotions"} -> "promotions"
      [] str = "Uncategorized" -> "uncategorized"
      [] str = "Updates" -> "updates"
      [] str = "Personal" -> "personal"
      [] str = "Finance" -> "finance"
      [] str = "Social" -> "social"
      [] str = "Newsletters" -> "newsletters"
      [] OTHER -> str

\* The category query parameters of get_emails: absent, empty, and labels in
\* several spellings
CategoryFilters == {NullStr, "", "Work", "WORK", "promotions", "uncategorized", "travel"}

\* "if category:" - the parameter is present and not empty
FilterGiven(cat) == cat # NullStr /\ cat # ""

\* received_at ascending instead of descending
ComesBeforeAscending(a, b) ==
    \/ a.priority_score > b.priority_score
    \/ /\ a.priority_score = b.priority_score
       /\ a.received_at # NullTime
       /\ b.received_at # NullTime
       /\ a.received_at < b.received_at

\* ORDER BY priority_score DESC, received_at DESC: row a must precede row b
\* (in a descending order NULL sorts before every value)
ComesBefore(a, b) ==
    \/ a.priority_score > b.priority_score
    \/ /\ a.priority_score = b.priority_score
       /\ \/ a.received_at = NullTime /\ b.received_at # NullTime
          \/ /\ a.received_at # NullTime
             /\ b.received_at # NullTime
             /\ a.received_at > b.received_at

\* The sequences without repetition of the given row ids
Orderings(ids) ==
    {o \in [1..Cardinality(ids) -> ids] :
        \A i, j \in 1..Cardinality(ids) : i # j => o[i] # o[j]}

\* The WHERE clause of get_emails_for_user
ListedRows(store, u, cat) ==
    {i \in 1..Len(store) :
        /\ store[i].owner_id = u
        /\ FilterGiven(cat) => lower(store[i].category) = lower(cat)}

\* crud.get_emails_for_user: the selected rows in an order the ORDER BY allows
\* (rows equal in both keys come in any order)
get_emails_for_user(store, u, cat) ==
    {o \in Orderings(ListedRows(store, u, cat)) :
        \A i, j \in 1..Len(o) : ComesBefore(store[o[i]], store[o[j]]) => i < j}

\* main.get_emails
GetEmails(u, cat) ==
    /\ UNCHANGED <<emails, runVars, fetchVars, tokenVars, callVars>>
    /\ \E rows \in get_emails_for_user(emails, u, cat) :
          listing' = [user |-> u, category |-> cat, rows |-> rows]
    /\ UNCHANGED <<now, dossier, dossier_status>>

ListNext == \E u \in Users, cat \in CategoryFilters : GetEmails(u, cat)

\* SQL LIKE: "%" matches any run of characters, "_" any one character
RECURSIVE Like(_, _)
Like(text, pattern) ==
    IF pattern = <<>> THEN text = <<>>
    ELSE IF Head(pattern) = "%"
         THEN \/ Like(text, Tail(pattern))
              \/ text # <<>> /\ Like(Tail(text), pattern)
    ELSE /\ text # <<>>
         /\ Head(pattern) = "_" \/ Head(pattern) = Head(text)
         /\ Like(Tail(text), Tail(pattern))

\* Email.sender.ilike(f"%{search_query}%")
SenderMatches(sender, search_query) ==
    Like(LowerSeq(sender), <<"%">> \o LowerSeq(search_query) \o <<"%">>)

DossierWindowDays == 180

\* A NULL timestamp taken to be inside the window
InWindowOrUnset(received_at, today) ==
    received_at = NullTime \/ received_at >= today - DossierWindowDays

\* received_at >= six_months_ago (a NULL timestamp never compares true)
InWindow(received_at, today) ==
    received_at # NullTime /\ received_at >= today - DossierWindowDays

\* The WHERE clause of get_dossier_for_sender
DossierRows(store, u, search_query, today) ==
    {i \in 1..Len(store) :
        /\ store[i].owner_id = u
        /\ SenderMatches(store[i].sender, search_query)
        /\ InWindow(store[i].received_at, today)}

RECURSIVE SumPriority(_, _)
\* sum(email.priority_score for email in sender_emails)
SumPriority(store, rows) ==
    IF rows = <<>> THEN 0
    ELSE store[Head(rows)].priority_score + SumPriority(store, Tail(rows))

\* The mean cut off after two decimals instead of rounded
TruncatedMean(total, n) == (100 * total) \div n

\* round(total / n, 2), in hundredths: the nearest hundredth, a tie going to
\* the even one
RoundedMean(total, n) ==
    LET f == (100 * total) \div n
        r == (100 * total) % n
    IN  IF 2 * r < n THEN f
        ELSE IF 2 * r > n THEN f + 1
        ELSE IF f % 2 = 0 THEN f ELSE f + 1

\* Counter(email.category for email in sender_emails), as category -> count
CategoryCounts(store, rows) ==
    LET cats == {store[rows[i]].category : i \in 1..Len(rows)}
    IN  [c \in cats |-> Cardinality({i \in 1..Len(rows) : store[rows[i]].category = c})]

\* Counter(actions).most_common(1)[0][0] if actions else "None": the action
\* with the highest count, the one met first among equals; the string "None"
\* when no selected row has an action
MostCommonAction(store, rows) ==
    LET actions == SelectSeq([i \in 1..Len(rows) |-> store[rows[i]].suggested_action],
                             LAMBDA a : a # NullStr /\ a # "")
        count(a) == Cardinality({i \in 1..Len(actions) : actions[i] = a})
        first == CHOOSE i \in 1..Len(actions) :
                     /\ \A j \in 1..Len(actions) : count(actions[j]) <= count(actions[i])
                     /\ \A j \in 1..(i - 1) : count(actions[j]) < count(actions[i])
    IN  IF actions = <<>> THEN "None" ELSE actions[first]

\* email.subject or "No Subject"
SubjectOrDefault(subject) == IF Truthy(subject) THEN subject ELSE TextSubject

\* conversation_history: one entry per selected row, in the order of the query
ConversationHistory(store, rows) ==
    [i \in 1..Len(rows) |->
        [subject |-> SubjectOrDefault(store[rows[i]].subject),
         summary |-> store[rows[i]].summary,
         received_at |-> store[rows[i]].received_at,
         suggested_action |-> store[rows[i]].suggested_action]]

\* crud.get_dossier_for_sender for the selected rows in the order of the query
\* (received_at descending); average_priority_score is in hundredths
DossierOf(store, u, search_query, rows) ==
    IF rows = <<>>
       THEN [user |-> u, search_query |-> search_query, matched |-> rows,
             total_emails |-> 0, category_counts |-> <<>>,
             average_priority_score |-> 0, latest_email_summary |-> NullText,
             most_common_action |-> NullStr, conversation_history |-> <<>>]
       ELSE [user |-> u, search_query |-> search_query, matched |-> rows,
             total_emails |-> Len(rows),
             category_counts |-> CategoryCounts(store, rows),
             average_priority_score |-> RoundedMean(SumPriority(store, rows), Len(rows)),
             latest_email_summary |-> store[rows[1]].summary,
             most_common_action |-> MostCommonAction(store, rows),
             conversation_history |-> ConversationHistory(store, rows)]

\* The search tokens of the dossier requests
SearchQueries == {<<"b", "o">>, <<"B">>, <<"@">>, <<"z">>, <<"b", "_", "b">>}

\* datetime.utcnow() of the dossier requests, in days
Todays == {210, 400}

\* main.get_sender_dossier
GetDossier(u, search_query, today) ==
    /\ UNCHANGED <<emails, runVars, fetchVars, tokenVars, callVars>>
    /\ now' = today
    /\ \E rows \in {o \in Orderings(DossierRows(emails, u, search_query, today)) :
                       \A i, j \in 1..Len(o) :
                           emails[o[i]].received_at > emails[o[j]].received_at => i < j} :
          /\ dossier' = DossierOf(emails, u, search_query, rows)
          /\ dossier_status' = IF rows = <<>> THEN 404 ELSE 200
    /\ UNCHANGED listing

DossierNext ==
    \E u \in Users, search_query \in SearchQueries, today \in Todays :
        GetDossier(u, search_query, today)

----------------------------------------------------------------------------
(* ai_service.py: the annotators called directly on texts given by their
   characters, so that "keyword in text.lower()" is a substring search *)

\* The characters of each keyword phrase of the tables of ai_service.py
Chars(k) ==
    CASE k = "sale" -> <<"s", "a", "l", "e">>
      [] k = "discount" -> <<"d", "i", "s", "c", "o", "u", "n", "t">>
      [] k = "offer" -> <<"o", "f", "f", "e", "r">>
      [] k = "unsubscribe" -> <<"u", "n", "s", "u", "b", "s", "c", "r", "i", "b", "e">>
      [] k = "coupon" -> <<"c", "o", "u", "p", "o", "n">>
      [] k = "deal" -> <<"d", "e", "a", "l">>
      [] k = "limited time" -> <<"l", "i", "m", "i", "t", "e", "d", " ", "t", "i", "m", "e">>
      [] k = "free shipping" -> <<"f", "r", "e", "e", " ", "s", "h", "i", "p", "p", "i", "n", "g">>
      [] k = "shop now" -> <<"s", "h", "o", "p", " ", "n", "o", "w">>
      [] k = "view collection" -> <<"v", "i", "e", "w", " ", "c", "o", "l", "l", "e", "c", "t", "i", "o", "n">>
      [] k = "save now" -> <<"s", "a", "v", "e", " ", "n", "o", "w">>
      [] k = "update" -> <<"u", "p", "d", "a", "t", "e">>
      [] k = "notification" -> <<"n", "o", "t", "i", "f", "i", "c", "a", "t", "i", "o", "n">>
      [] k = "alert" -> <<"a", "l", "e", "r", "t">>
      [] k = "shipping" -> <<"s", "h", "i", "p", "p", "i", "n", "g">>
      [] k = "delivery" -> <<"d", "e", "l", "i", "v", "e", "r", "y">>
      [] k = "order" -> <<"o", "r", "d", "e", "r">>
      [] k = "confirmation" -> <<"c", "o", "n", "f", "i", "r", "m", "a", "t", "i", "o", "n">>
      [] k = "receipt" -> <<"r", "e", "c", "e", "i", "p", "t">>
      [] k = "invoice" -> <<"i", "n", "v", "o", "i", "c", "e">>
      [] k = "statement" -> <<"s", "t", "a", "t", "e", "m", "e", "n", "t">>
      [] k = "policy change" -> <<"p", "o", "l", "i", "c", "y", " ", "c", "h", "a", "n", "g", "e">>
      [] k = "meeting" -> <<"m", "e", "e", "t", "i", "n", "g">>
      [] k = "report" -> <<"r", "e", "p", "o", "r", "t">>
      [] k = "project" -> <<"p", "r", "o", "j", "e", "c", "t">>
      [] k = "deadline" -> <<"d", "e", "a", "d", "l", "i", "n", "e">>
      [] k = "task" -> <<"t", "a", "s", "k">>
      [] k = "agenda" -> <<"a", "g", "e", "n", "d", "a">>
      [] k = "team" -> <<"t", "e", "a", "m">>
      [] k = "collaboration" -> <<"c", "o", "l", "l", "a", "b", "o", "r", "a", "t", "i", "o", "n">>
      [] k = "document" -> <<"d", "o", "c", "u", "m", "e", "n", "t">>
      [] k = "presentation" -> <<"p", "r", "e", "s", "e", "n", "t", "a", "t", "i", "o", "n">>
      [] k = "feedback" -> <<"f", "e", "e", "d", "b", "a", "c", "k">>
      [] k = "zoom" -> <<"z", "o", "o", "m">>
      [] k = "happy birthday" -> <<"h", "a", "p", "p", "y", " ", "b", "i", "r", "t", "h", "d", "a", "y">>
      [] k = "congratulations" -> <<"c", "o", "n", "g", "r", "a", "t", "u", "l", "a", "t", "i", "o", "n", "s">>
      [] k = "invitation" -> <<"i", "n", "v", "i", "t", "a", "t", "i", "o", "n">>
      [] k = "family" -> <<"f", "a", "m", "i", "l", "y">>
      [] k = "friend" -> <<"f", "r", "i", "e", "n", "d">>
      [] k = "trip" -> <<"t", "r", "i", "p">>
      [] k = "vacation" -> <<"v", "a", "c", "a", "t", "i", "o", "n">>
      [] k = "photos" -> <<"p", "h", "o", "t", "o", "s">>
      [] k = "event" -> <<"e", "v", "e", "n", "t">>
      [] k = "party" -> <<"p", "a", "r", "t", "y">>
      [] k = "bank" -> <<"b", "a", "n", "k">>
      [] k = "payment" -> <<"p", "a", "y", "m", "e", "n", "t">>
      [] k = "due date" -> <<"d", "u", "e", " ", "d", "a", "t", "e">>
      [] k = "credit card" -> <<"c", "r", "e", "d", "i", "t", " ", "c", "a", "r", "d">>
      [] k = "investment" -> <<"i", "n", "v", "e", "s", "t", "m", "e", "n", "t">>
      [] k = "stock" -> <<"s", "t", "o", "c", "k">>
      [] k = "market update" -> <<"m", "a", "r", "k", "e", "t", " ", "u", "p", "d", "a", "t", "e">>
      [] k = "bill" -> <<"b", "i", "l", "l">>
      [] k = "linkedin" -> <<"l", "i", "n", "k", "e", "d", "i", "n">>
      [] k = "facebook" -> <<"f", "a", "c", "e", "b", "o", "o", "k">>
      [] k = "twitter" -> <<"t", "w", "i", "t", "t", "e", "r">>
      [] k = "instagram" -> <<"i", "n", "s", "t", "a", "g", "r", "a", "m">>
      [] k = "mentioned you" -> <<"m", "e", "n", "t", "i", "o", "n", "e", "d", " ", "y", "o", "u">>
      [] k = "new post" -> <<"n", "e", "w", " ", "p", "o", "s", "t">>
      [] k = "tagged you" -> <<"t", "a", "g", "g", "e", "d", " ", "y", "o", "u">>
      [] k = "friend request" -> <<"f", "r", "i", "e", "n", "d", " ", "r", "e", "q", "u", "e", "s", "t">>
      [] k = "new connection" -> <<"n", "e", "w", " ", "c", "o", "n", "n", "e", "c", "t", "i", "o", "n">>
      [] k = "newsletter" -> <<"n", "e", "w", "s", "l", "e", "t", "t", "e", "r">>
      [] k = "digest" -> <<"d", "i", "g", "e", "s", "t">>
      [] k = "weekly" -> <<"w", "e", "e", "k", "l", "y">>
      [] k = "daily" -> <<"d", "a", "i", "l", "y">>
      [] k = "monthly" -> <<"m", "o", "n", "t", "h", "l", "y">>
      [] k = "subscribe" -> <<"s", "u", "b", "s", "c", "r", "i", "b", "e">>
      [] k = "edition" -> <<"e", "d", "i", "t", "i", "o", "n">>
      [] k = "latest issue" -> <<"l", "a", "t", "e", "s", "t", " ", "i", "s", "s", "u", "e">>
      [] k = "top stories" -> <<"t", "o", "p", " ", "s", "t", "o", "r", "i", "e", "s">>
      [] k = "urgent" -> <<"u", "r", "g", "e", "n", "t">>
      [] k = "important" -> <<"i", "m", "p", "o", "r", "t", "a", "n", "t">>
      [] k = "action required" -> <<"a", "c", "t", "i", "o", "n", " ", "r", "e", "q", "u", "i", "r", "e", "d">>
      [] k = "response needed" -> <<"r", "e", "s", "p", "o", "n", "s", "e", " ", "n", "e", "e", "d", "e", "d">>
      [] k = "asap" -> <<"a", "s", "a", "p">>
      [] k = "promotional" -> <<"p", "r", "o", "m", "o", "t", "i", "o", "n", "a", "l">>
      [] k = "advertisement" -> <<"a", "d", "v", "e", "r", "t", "i", "s", "e", "m", "e", "n", "t">>
      [] k = "schedule" -> <<"s", "c", "h", "e", "d", "u", "l", "e">>
      [] k = "call" -> <<"c", "a", "l", "l">>
      [] k = "appointment" -> <<"a", "p", "p", "o", "i", "n", "t", "m", "e", "n", "t">>
      [] k = "zoom link" -> <<"z", "o", "o", "m", " ", "l", "i", "n", "k">>
      [] k = "calendar" -> <<"c", "a", "l", "e", "n", "d", "a", "r">>
      [] k = "confirm a time" -> <<"c", "o", "n", "f", "i", "r", "m", " ", "a", " ", "t", "i", "m", "e">>
      [] k = "your thoughts" -> <<"y", "o", "u", "r", " ", "t", "h", "o", "u", "g", "h", "t", "s">>
      [] k = "let me know" -> <<"l", "e", "t", " ", "m", "e", " ", "k", "n", "o", "w">>
      [] k = "confirm" -> <<"c", "o", "n", "f", "i", "r", "m">>
      [] k = "are you available" -> <<"a", "r", "e", " ", "y", "o", "u", " ", "a", "v", "a", "i", "l", "a", "b", "l", "e">>
      [] k = "question is" -> <<"q", "u", "e", "s", "t", "i", "o", "n", " ", "i", "s">>
      [] k = "fyi" -> <<"f", "y", "i">>
      [] k = "just so you know" -> <<"j", "u", "s", "t", " ", "s", "o", " ", "y", "o", "u", " ", "k", "n", "o", "w">>
      [] k = "heads up" -> <<"h", "e", "a", "d", "s", " ", "u", "p">>
      [] k = "announcement" -> <<"a", "n", "n", "o", "u", "n", "c", "e", "m", "e", "n", "t">>

AllKeywords ==
    UNION {KEYWORD_CATEGORIES[c] : c \in DOMAIN KEYWORD_CATEGORIES}
      \cup HIGH_PRIORITY_KEYWORDS \cup LOW_PRIORITY_KEYWORDS
      \cup UNION {ACTION_KEYWORDS[a] : a \in DOMAIN ACTION_KEYWORDS}

\* The kw of a text given by its characters: the keyword phrases that are
\* substrings of the lower-cased text, and "?" if the text holds one
KeywordsIn(chars) ==
    {k \in AllKeywords : SeqContains(LowerSeq(chars), Chars(k))}
      \cup (IF SeqContains(chars, <<"?">>) THEN {"?"} ELSE {})

\* Words the sample texts are made of, each as a string and as its characters
Words ==
    <<[s |-> "unsubscribe", c |-> <<"u", "n", "s", "u", "b", "s", "c", "r", "i", "b", "e">>],
      [s |-> "discount", c |-> <<"d", "i", "s", "c", "o", "u", "n", "t">>],
      [s |-> "Meeting", c |-> <<"M", "e", "e", "t", "i", "n", "g">>],
      [s |-> "invoice", c |-> <<"i", "n", "v", "o", "i", "c", "e">>],
      [s |-> "URGENT", c |-> <<"U", "R", "G", "E", "N", "T">>],
      [s |-> "?", c |-> <<"?">>],
      [s |-> "feedback", c |-> <<"f", "e", "e", "d", "b", "a", "c", "k">>],
      [s |-> "hello", c |-> <<"h", "e", "l", "l", "o">>],
      [s |-> "fyi", c |-> <<"f", "y", "i">>]>>

\* What stands between two words of a text: nothing or a space
Separators == {[s |-> "", c |-> <<>>], [s |-> " ", c |-> <<" ">>]}

RECURSIVE JoinStrings(_, _)
JoinStrings(ws, sep) ==
    IF Len(ws) = 1 THEN ws[1].s
    ELSE ws[1].s \o sep.s \o JoinStrings(Tail(ws), sep)

RECURSIVE JoinChars(_, _)
JoinChars(ws, sep) ==
    IF Len(ws) = 1 THEN ws[1].c
    ELSE ws[1].c \o sep.c \o JoinChars(Tail(ws), sep)

\* The text made of the words with the separator between them
TextOfWords(ws, sep) ==
    [lit |-> JoinStrings(ws, sep), kw |-> KeywordsIn(JoinChars(ws, sep))]

\* The texts of 1..MaxWords words
SampleTexts ==
    UNION {{TextOfWords([i \in 1..n |-> Words[pick[i]]], sep) :
              pick \in [1..n -> 1..Len(Words)], sep \in Separators} :
           n \in 1..MaxWords}

RECURSIVE Dots(_)
Dots(n) == IF n <= 0 THEN "" ELSE "." \o Dots(n - 1)

\* The text continued with dots up to the given length
PadTo(t, length) == [lit |-> t.lit \o Dots(length - TextLen(t)), kw |-> t.kw]

\* Texts around the threshold of summarize_text
PaddedTexts ==
    {PadTo(TextOfWords(<<Words[i]>>, [s |-> "", c |-> <<>>]), length) :
        i \in 1..Len(Words), length \in {99, 100, 101}}

\* Subjects of the messages scored: none, the default, and single words
SampleSubjects ==
    {NullText, TextSubject} \cup
    {TextOfWords(<<Words[i]>>, [s |-> "", c |-> <<>>]) : i \in {1, 5, 8}}

\* Sender headers of the messages scored: missing, another person, the user
\* under another spelling
SampleSenders == {<<>>, SenderBob, SenderSelf}

\* The category labels determine_action is called with
SampleCategories ==
    {CategoryOrder[i] : i \in 1..Len(CategoryOrder)} \cup {"Uncategorized"}

NoCall ==
    [fn |-> "none", text |-> NullText, subject |-> NullText, sender |-> <<>>,
     user_email |-> <<>>, category |-> NullStr, loaded |-> FALSE,
     label |-> NullStr, score |-> 0, summary |-> NullText]

CallIdle == call = NoCall

\* The arguments an annotator is called with: any of the samples in the first
\* call, the arguments of the last call when the call is repeated
FirstOrRepeated(fn, samples, last) ==
    IF call = NoCall THEN samples ELSE IF call.fn = fn THEN last ELSE {}

CallClassify ==
    /\ UNCHANGED <<emails, runVars, fetchVars, tokenVars, queryVars>>
    /\ \E t \in FirstOrRepeated("classify_email", SampleTexts, {call.text}) :
          call' = [NoCall EXCEPT !.fn = "classify_email", !.text = t,
                                 !.label = classify_email(t)]

CallPriority ==
    /\ UNCHANGED <<emails, runVars, fetchVars, tokenVars, queryVars>>
    /\ \E args \in FirstOrRepeated("calculate_priority_score",
                      SampleSubjects \X (SampleTexts \cup {NullText})
                          \X SampleSenders \X {UserEmail(u) : u \in Users},
                      {<<call.subject, call.text, call.sender, call.user_email>>}) :
          LET subject == args[1]
              body == args[2]
              sender == args[3]
              user_email == args[4]
          IN  call' = [NoCall EXCEPT
                          !.fn = "calculate_priority_score", !.text = body,
                          !.subject = subject, !.sender = sender,
                          !.user_email = user_email,
                          !.score = calculate_priority_score(subject, body, sender,
                                                             user_email)]

CallAction ==
    /\ UNCHANGED <<emails, runVars, fetchVars, tokenVars, queryVars>>
    /\ \E args \in FirstOrRepeated("determine_action",
                      SampleTexts \X SampleCategories,
                      {<<call.text, call.category>>}) :
          LET t == args[1]
              category == args[2]
          IN  call' = [NoCall EXCEPT !.fn = "determine_action", !.text = t,
                                     !.category = category,
                                     !.label = determine_action(t, category)]

CallSummarize ==
    /\ UNCHANGED <<emails, runVars, fetchVars, tokenVars, queryVars>>
    /\ \E args \in FirstOrRepeated("summarize_text",
                      BOOLEAN \X (SampleTexts \cup PaddedTexts),
                      {<<call.loaded, call.text>>}) :
          LET loaded == args[1]
              t == args[2]
          IN  \E summary \in summarize_text(loaded, t) :
                 call' = [NoCall EXCEPT !.fn = "summarize_text", !.text = t,
                                        !.loaded = loaded, !.summary = summary]

----------------------------------------------------------------------------
(* Specifications *)

vars == <<emails, runVars, fetchVars, tokenVars, queryVars, callVars>>

\* The annotation pipeline over a store left by ingestion
Init == emails \in FreshStores /\ RunInit /\ FetchIdle /\ TokenIdle /\ QueryIdle /\ CallIdle

Next == PipeNext

Spec == Init /\ [][Next]_vars

\* A message of user 1 that was ingested and annotated earlier
AnnotatedEarlier ==
    RunAlone(NewEmail(1, parse_email([id |-> 1, kind |-> "ok"], 1)), UserEmail(1),
             TextMeeting)

\* Ingestion into an empty store, or into one that holds an annotated message
InitIngest ==
    /\ emails \in {<<>>, <<AnnotatedEarlier>>}
    /\ RunIdle /\ FetchIdle /\ TokenIdle /\ QueryIdle /\ CallIdle

NextIngest == IngestNext

SpecIngest == InitIngest /\ [][NextIngest]_vars

\* Logins of users who have no token yet, and repeated logins
InitToken == emails = <<>> /\ RunIdle /\ FetchIdle /\ TokenIdle /\ QueryIdle /\ CallIdle

NextToken == TokenNext

SpecToken == InitToken /\ [][NextToken]_vars

\* Listing requests over an annotated store
InitList ==
    /\ emails \in AnnotatedStores
    /\ RunIdle /\ FetchIdle /\ TokenIdle /\ QueryIdle /\ CallIdle

NextList == ListNext

SpecList == InitList /\ [][NextList]_vars

\* Dossier requests over an annotated store
InitDossier ==
    /\ emails \in AnnotatedStores
    /\ RunIdle /\ FetchIdle /\ TokenIdle /\ QueryIdle /\ CallIdle

NextDossier == DossierNext

SpecDossier == InitDossier /\ [][NextDossier]_vars

\* One fetch_emails request over messages with and without usable dates
InitIngestDates ==
    /\ emails = <<>>
    /\ RunIdle /\ FetchIdle /\ TokenIdle /\ QueryIdle /\ CallIdle

NextIngestDates ==
    \/ \E batch \in DatedBatches : FetchEmails(1, 1, batch)
    \/ FetchAndParse(1)
    \/ Select(1)
    \/ Insert(1)

SpecIngestDates == InitIngestDates /\ [][NextIngestDates]_vars

\* Direct calls of the four annotators
InitAnnotate ==
    /\ emails = <<>>
    /\ RunIdle /\ FetchIdle /\ TokenIdle /\ QueryIdle /\ CallIdle

NextAnnotate == CallClassify \/ CallPriority \/ CallAction \/ CallSummarize

SpecAnnotate == InitAnnotate /\ [][NextAnnotate]_vars

----------------------------------------------------------------------------
(* Claims about the annotation pipeline *)

\* C1: per-message atomicity of an annotation run: there is no committed store
\* state in which the summary written by a run is stored while the priority
\* score (and category, action) of the same run are not yet stored.
C1_RunWritesAllOrNothing ==
    \A q \in Requests :
        "summary" \in written[q] =>
            /\ "priority_score" \in written[q]
            /\ emails[email_id(q)].priority_score = obj[q].priority_score

\* C4: failure isolation in a batch: when the runner of a request has finished,
\* every queued task has been run, a run ended in a rollback only if that run
\* itself raised, and every run that did not raise committed (or returned at
\* once because the message has no body).
C4_FailureIsolation ==
    \A q \in Requests :
        /\ Len(raised[q]) = Len(outcome[q])
        /\ pc[q] = "finished" => Len(outcome[q]) = Len(tasks[q])
        /\ \A i \in 1..Len(outcome[q]) :
              /\ outcome[q][i] = "rolledback" <=> raised[q][i] # "none"
              /\ raised[q][i] = "none" =>
                    outcome[q][i] = IF Truthy(emails[tasks[q][i]].body)
                                       THEN "committed" ELSE "returned"

\* C4 witness: a finished batch in which one run raised and a later run of the
\* same batch committed.
C4_Witness ==
    \E q \in Requests :
        /\ pc[q] = "finished"
        /\ \E i, j \in 1..Len(outcome[q]) :
              i < j /\ raised[q][i] = "raised" /\ outcome[q][j] = "committed"

\* C5: a run that reads a message whose summary is already set never invokes
\* the Summarizer, and no step of that run changes the stored summary.
C5_SummarySkip ==
    /\ [](\A q \in Requests : sawSummary[q] => ~calledSummarizer[q])
    /\ [][\A q \in Requests :
            (sawSummary[q] /\ <<pc[q], pos[q]>> # <<pc'[q], pos'[q]>>)
               => emails'[email_id(q)].summary = emails[email_id(q)].summary]_vars

\* C5 witness: a run found the summary set and has passed its summarization
\* step.
C5_Witness ==
    \E q \in Requests :
        sawSummary[q] /\ pc[q] \in {"cat", "prio", "act", "commit"}

\* C6: every run over a message with a body, in which no annotator or store
\* call failed, computes the priority score and ends with it committed.
C6_PriorityCommittedEveryRun ==
    \A q \in Requests :
        \A i \in 1..Len(outcome[q]) :
            (Truthy(emails[tasks[q][i]].body) /\ raised[q][i] # "raised")
               => outcome[q][i] = "committed"

----------------------------------------------------------------------------
(* Claims about ingestion *)

\* The create_email calls made for a message identifier that have returned or
\* raised, as (request, index in its list) pairs
CreateCalls(mid) ==
    {c \in FetchRequests \X (1..MaxBatch) :
        /\ c[2] <= Len(results[c[1]])
        /\ messages[c[1]][c[2]].id = mid
        /\ results[c[1]][c[2]] \in {"saved", "skipped", "IntegrityError"}}

\* C2: idempotent ingestion: the store never holds two rows with one message
\* identifier, at most one create_email call per identifier adds a row, and
\* once a call for an identifier is over the store holds exactly one row with it.
C2_IdempotentIngestion ==
    \A mid \in MessageIds :
        /\ Cardinality(RowsWithMessageId(emails, mid)) <= 1
        /\ Cardinality({c \in CreateCalls(mid) : results[c[1]][c[2]] = "saved"}) <= 1
        /\ CreateCalls(mid) # {} => Cardinality(RowsWithMessageId(emails, mid)) = 1

\* C2 witness: two different sessions have both ingested the same message
\* identifier.
C2_Witness ==
    \E mid \in MessageIds :
        \E c, d \in CreateCalls(mid) :
            c[1] # d[1] /\ Cardinality(RowsWithMessageId(emails, mid)) = 1

\* C3: a duplicate ingestion is a no-op: no step changes a stored row, and a
\* create_email call that finds its identifier stored leaves the store as it
\* is and returns normally (the message is counted, the request does not fail).
C3_DuplicateIsNoOp ==
    [][/\ Len(emails') >= Len(emails)
       /\ \A i \in 1..Len(emails) : emails'[i] = emails[i]
       /\ \A f \in FetchRequests :
             (/\ fpc[f] = "select"
              /\ fpc'[f] # "select"
              /\ RowsWithMessageId(emails, parsed_email[f].message_id) # {})
                => /\ emails' = emails
                   /\ fpc'[f] # "failed"
                   /\ results'[f] = Append(results[f], "skipped")
                   /\ fetched_count'[f] = fetched_count[f] + 1]_vars

\* C3 witness: a create_email call was skipped as a duplicate of an annotated
\* row that belongs to another user and holds other content.
C3_Witness ==
    \E f \in FetchRequests :
        \E i \in 1..Len(results[f]) :
            /\ results[f][i] = "skipped"
            /\ \E r \in RowsWithMessageId(emails, messages[f][i].id) :
                  /\ emails[r].owner_id # fuser[f]
                  /\ emails[r].body # parse_email(messages[f][i], fuser[f]).body
                  /\ emails[r].category # "Uncategorized"

\* C7: a fetch_emails request never fails as a whole for one bad message: when
\* it is over it has answered with the count, every well-formed message of its
\* list is stored, and the count is the number of messages handled.
C7_BatchSurvivesBadItem ==
    \A f \in FetchRequests :
        fpc[f] \in {"done", "failed"} =>
            /\ response[f] # "500"
            /\ \A i \in 1..Len(messages[f]) :
                  messages[f][i].kind = "ok" =>
                      RowsWithMessageId(emails, messages[f][i].id) # {}
            /\ fetched_count[f] =
                  Cardinality({i \in 1..Len(messages[f]) : messages[f][i].kind = "ok"})

----------------------------------------------------------------------------
(* Claims about token replacement *)

\* No save_user_token call for the user stands between its SELECT and the end
NoSaveInProgress(u) ==
    \A l \in Logins : tuser[l] = u => tpc[l] \in {"idle", "done"}

\* C8: token replacement is transactional.  Once a token of a user has been
\* committed, no committed state of the token table, which is what a
\* concurrent request such as the token check of fetch_emails reads, shows the
\* user with zero tokens; and whenever no save_user_token call for the user is
\* in progress, the user has exactly one token.
C8_TokenReplacementTransactional ==
    \A u \in Users :
        hadToken[u] =>
            /\ UserTokens(tokens, u) # {}
            /\ NoSaveInProgress(u) => Cardinality(UserTokens(tokens, u)) = 1

----------------------------------------------------------------------------
(* Claims about the listing and the dossier *)

\* C9: the listing returned by get_emails_for_user holds only rows owned by
\* the user, each once; it holds all of the user's rows when no category
\* filter is given, and exactly the user's rows whose category equals the
\* filter without regard to case when one is given; and the rows are in
\* descending order of priority score, rows of equal score in descending
\* order of received timestamp.
C9_ListingOrder ==
    listing.user # 0 =>
        LET rows == listing.rows
            expected ==
                {k \in 1..Len(emails) :
                    /\ emails[k].owner_id = listing.user
                    /\ listing.category \notin {NullStr, ""} =>
                          lower(emails[k].category) = lower(listing.category)}
        IN  /\ \A i \in 1..Len(rows) : emails[rows[i]].owner_id = listing.user
            /\ {rows[i] : i \in 1..Len(rows)} = expected
            /\ Len(rows) = Cardinality(expected)
            /\ \A i, j \in 1..Len(rows) :
                  i < j =>
                     LET a == emails[rows[i]]
                         b == emails[rows[j]]
                     IN  /\ a.priority_score >= b.priority_score
                         /\ ( /\ a.priority_score = b.priority_score
                              /\ a.received_at # NullTime
                              /\ b.received_at # NullTime )
                            => a.received_at >= b.received_at

\* A listing filtered by a category spelled in another case than the stored
\* label: its first two rows have the same score and different timestamps,
\* and a row of the store is left out of it.
C9_Witness ==
    /\ listing.user = 1
    /\ listing.category = "WORK"
    /\ Len(listing.rows) >= 2
    /\ emails[listing.rows[1]].category = "Work"
    /\ emails[listing.rows[1]].priority_score = emails[listing.rows[2]].priority_score
    /\ emails[listing.rows[1]].received_at > emails[listing.rows[2]].received_at
    /\ Len(emails) > Len(listing.rows)

RECURSIVE SumOfScores(_)
SumOfScores(ids) ==
    IF ids = {} THEN 0
    ELSE LET k == CHOOSE x \in ids : TRUE
         IN  emails[k].priority_score + SumOfScores(ids \ {k})

RECURSIVE SumOfCounts(_, _)
SumOfCounts(counts, cats) ==
    IF cats = {} THEN 0
    ELSE LET c == CHOOSE x \in cats : TRUE
         IN  counts[c] + SumOfCounts(counts, cats \ {c})

Distance(a, b) == IF a >= b THEN a - b ELSE b - a

\* The rows of the dossier's user whose sender the dossier's search pattern
\* selects
Matching == {k \in 1..Len(emails) :
                /\ emails[k].owner_id = dossier.user
                /\ SenderMatches(emails[k].sender, dossier.search_query)}

----------------------------------------------------------------------------
(* Claims about the annotators *)

\* The place of a category in the declaration order of the keyword table
Declared(c) == CHOOSE i \in 1..Len(CategoryOrder) : CategoryOrder[i] = c

\* The number of the category's keyword phrases that are substrings of the
\* lower-cased text of the last call
Found(c) == Cardinality({k \in KEYWORD_CATEGORIES[c] : k \in call.text.kw})

\* C12: classify_email returns one label, a category of the table or
\* "Uncategorized".  It returns "Uncategorized" exactly when no keyword of any
\* category occurs in the text; otherwise it returns a category with the
\* highest number of keywords found, and every category declared before it
\* has a strictly lower number.  A text whose only keywords are "unsubscribe"
\* and "discount" (and "subscribe", which is part of "unsubscribe") is
\* classified as "Promotions".
C12_KeywordCategorizer ==
    call.fn = "classify_email" =>
        LET categories == DOMAIN KEYWORD_CATEGORIES
        IN  /\ call.label \in categories \cup {"Uncategorized"}
            /\ call.label = "Uncategorized" <=> \A c \in categories : Found(c) = 0
            /\ call.label \in categories =>
                  \A c \in categories :
                      /\ Found(c) <= Found(call.label)
                      /\ Declared(c) < Declared(call.label) =>
                            Found(c) < Found(call.label)
            /\ ( /\ {"unsubscribe", "discount"} \subseteq call.text.kw
                 /\ \A c \in categories :
                       KEYWORD_CATEGORIES[c] \cap call.text.kw
                           \subseteq {"unsubscribe", "discount", "subscribe"} )
               => call.label = "Promotions"

\* classify_email was called on a text in which "unsubscribe" and "discount"
\* are the only keywords, and on which Promotions outscores Newsletters.
C12_Witness ==
    /\ call.fn = "classify_email"
    /\ call.text.kw = {"unsubscribe", "discount", "subscribe"}
    /\ Found("Promotions") = 2
    /\ Found("Newsletters") = 1
    /\ call.label = "Promotions"

\* The body of the scored message contains "urgent" and a "?", and the sender
\* does not contain the user's address
UrgentQuestionFromOther ==
    /\ call.fn = "calculate_priority_score"
    /\ "urgent" \in call.text.kw
    /\ "?" \in call.text.kw
    /\ ~SeqContains(LowerSeq(call.sender), LowerSeq(call.user_email))

C14_CategoryShortCircuit ==
    ( /\ call.fn = "determine_action"
      /\ call.category \in {"Promotions", "Newsletters", "Social", "Updates"} )
    => call.label = "No Action Needed"

\* determine_action was called with category Updates on a text that holds a
\* Schedule Event keyword and a Reply Needed keyword.
C14_Witness ==
    /\ call.fn = "determine_action"
    /\ call.category = "Updates"
    /\ "meeting" \in call.text.kw
    /\ "feedback" \in call.text.kw
    /\ call.label = "No Action Needed"

\* C15: for every text shorter than 100 characters summarize_text returns the
\* text unchanged.
C15_ShortInputIdentity ==
    ( /\ call.fn = "summarize_text"
      /\ TextLen(call.text) < 100 )
    => call.summary = call.text

\* An action keyword set has a keyword in the text of the last call
Has(a) == ACTION_KEYWORDS[a] \cap call.text.kw # {}

\* C19: for a category outside the no-action set, determine_action returns
\* "Schedule Event" if a Schedule Event keyword occurs; else "Reply Needed" if
\* a Reply Needed keyword occurs; else FYI if an FYI keyword occurs; else
\* "Reply Needed" if the category is Work, Personal or Finance, and none
\* otherwise.  So none is returned only for a category outside the seven
\* labels and a text without action keyword.
C19_ActionOrderAndDefault ==
    call.fn = "determine_action" =>
        /\ call.category \notin {"Promotions", "Newsletters", "Social", "Updates"} =>
              /\ Has("Schedule Event") => call.label = "Schedule Event"
              /\ ~Has("Schedule Event") /\ Has("Reply Needed") =>
                    call.label = "Reply Needed"
              /\ ( /\ ~Has("Schedule Event")
                   /\ ~Has("Reply Needed")
                   /\ Has("For Your Information (FYI)") )
                 => call.label = "For Your Information (FYI)"
              /\ (\A a \in DOMAIN ACTION_KEYWORDS : ~Has(a)) =>
                    call.label = IF call.category \in {"Work", "Personal", "Finance"}
                                    THEN "Reply Needed" ELSE NullStr
        /\ call.label = NullStr =>
              /\ call.category \notin DOMAIN KEYWORD_CATEGORIES
              /\ \A a \in DOMAIN ACTION_KEYWORDS : ~Has(a)

\* determine_action was called with category Work on a text that holds a
\* Schedule Event keyword and a Reply Needed keyword.
C19_Witness ==
    /\ call.fn = "determine_action"
    /\ call.category = "Work"
    /\ Has("Schedule Event")
    /\ Has("Reply Needed")
    /\ call.label = "Schedule Event"

----------------------------------------------------------------------------
(* Further claims about the pipeline, ingestion and the dossier *)

\* C16: in every run the step after the priority step calls the Action
\* Recommender with the message's current category (the label classified in
\* this run, or the stored label when the Categorizer did not run), stages the
\* result if it is not none and keeps the stored action if it is none, and
\* the run goes on to its commit; the only other way out of the step is a
\* failing call.
C16_ActionRecomputedEveryRun ==
    [][ \A q \in Requests :
          ( /\ pc[q] = "act"
            /\ pc'[q] # "act"
            /\ ~( /\ Len(raised'[q]) > Len(raised[q])
                  /\ raised'[q][Len(raised'[q])] = "raised" ) )
          => LET action == determine_action(
                               FormatSubjectBody(obj[q].subject, obj[q].body),
                               obj[q].category)
             IN  /\ pc'[q] = "commit"
                 /\ obj'[q].suggested_action =
                       IF action # NullStr THEN action ELSE obj[q].suggested_action
      ]_vars

\* C17: no row stored by ingestion has an unset received timestamp: a message
\* whose Date header does not parse and whose internalDate is missing or not a
\* number is stored with the ingestion time.
C17_TimestampFallback ==
    \A i \in 1..Len(emails) : emails[i].received_at # NullTime

\* C18: no sentinel string of the Summarizer is ever committed as the summary
\* of a message.
C18_SentinelNeverCommitted ==
    \A i \in 1..Len(emails) :
        emails[i].summary \notin {SummarizerUnavailable, CouldNotGenerate,
                                  ErrorDuringSummary}

\* C20: the dossier aggregates exactly the user's messages whose sender
\* contains the search token as a case-insensitive substring and whose
\* received timestamp is set and at most 180 days before the request; the
\* excerpt list has one entry per selected message, latest first, and the
\* latest summary is the one of the first.
C20_DossierSelection ==
    dossier.user # 0 =>
        LET selected ==
                {k \in 1..Len(emails) :
                    /\ emails[k].owner_id = dossier.user
                    /\ SeqContains(LowerSeq(emails[k].sender),
                                   LowerSeq(dossier.search_query))
                    /\ emails[k].received_at # NullTime
                    /\ now - emails[k].received_at <= 180}
            rows == dossier.matched
        IN  /\ {rows[i] : i \in 1..Len(rows)} = selected
            /\ dossier.total_emails = Cardinality(selected)
            /\ Len(dossier.conversation_history) = Cardinality(selected)
            /\ \A i \in 1..Len(rows) :
                  /\ dossier.conversation_history[i].received_at =
                        emails[rows[i]].received_at
                  /\ dossier.conversation_history[i].summary = emails[rows[i]].summary
            /\ \A i, j \in 1..Len(rows) :
                  i < j => emails[rows[i]].received_at >= emails[rows[j]].received_at
            /\ rows # <<>> => dossier.latest_email_summary = emails[rows[1]].summary

----------------------------------------------------------------------------
(* Claims about concurrent runs, the pending set and the stored annotations *)

\* The runs queued over message i, as (request, index in its queue) pairs
RunsOver(i) ==
    {r \in Requests \X (1..MaxEmails) : r[2] <= Len(tasks[r[1]]) /\ tasks[r[1]][r[2]] = i}

\* The run has returned
Returned(r) == r[2] <= Len(outcome[r[1]])

\* No finished run over message i has had an annotator or store call fail
NoFailedRun(i) == \A r \in RunsOver(i) : Returned(r) => raised[r[1]][r[2]] # "raised"

\* Message i as ingestion stored it
AsIngested(i) ==
    Email(emails[i].owner_id, emails[i].message_id, emails[i].subject,
          emails[i].sender, emails[i].body, emails[i].received_at)

\* The rows one run alone over message i, in which no call raises, can leave
SingleRunResults(i) ==
    {RunAlone(AsIngested(i), UserEmail(emails[i].owner_id), summary) :
        summary \in summarize_text(summarizer, emails[i].body)}

C22_PendingSetDrains ==
    \A q \in Requests :
        \A k \in 1..Len(outcome[q]) :
            raised[q][k] = "none" =>
                /\ emails[tasks[q][k]].summary # NullText
                /\ \A u \in Users :
                      \A j \in 1..Len(get_unprocessed_emails(emails, u)) :
                          get_unprocessed_emails(emails, u)[j] # tasks[q][k]

\* C23: annotation consistency of the committed store: a message whose
\* category is not "Uncategorized" has its summary set and a suggested action,
\* and the action is "No Action Needed" when the category is Promotions,
\* Newsletters, Social or Updates.
C23_AnnotationConsistency ==
    \A i \in 1..Len(emails) :
        emails[i].category # "Uncategorized" =>
            /\ emails[i].summary # NullText
            /\ emails[i].suggested_action # NullStr
            /\ emails[i].category \in {"Promotions", "Newsletters", "Social", "Updates"}
                  => emails[i].suggested_action = "No Action Needed"

\* C23 witness: a committed row categorized Promotions by a run, with its
\* summary and the action "No Action Needed", while another request is still
\* at work.
C23_Witness ==
    /\ \E i \in 1..Len(emails) :
          /\ emails[i].category = "Promotions"
          /\ emails[i].suggested_action = "No Action Needed"
          /\ emails[i].summary # NullText
    /\ \E q \in Requests : pc[q] \in {"summ", "cat", "prio", "act", "commit"}

====
